---- MODULE Spec2Model ----
(***************************************************************************)
(* One call of the function returned by createAsyncMiddleware              *)
(* (json-rpc-engine/src/createAsyncMiddleware.ts).                         *)
(*                                                                         *)
(* The state is the closure state of one call (nextPromise,                *)
(* returnHandlerCallback, nextWasCalled), the position of the adapter's    *)
(* async body, the position of the consumer's async middleware, the        *)
(* promises returned by asyncNext, and what the engine holds: the          *)
(* callbacks it was given through next, and the log of the completion      *)
(* callbacks (end, or a function delivered by _runReturnHandlers) that the *)
(* adapter invoked.  Steps of the async middleware, of the engine and of   *)
(* the adapter's continuations interleave freely: every await yields.      *)
(***************************************************************************)
EXTENDS Integers, Sequences, FiniteSets, TLC

\* ---- bounds ----
MaxNextCalls == 2        \* how many times the async middleware may call asyncNext
MaxCbInvocations == 2    \* how many times the engine may invoke one callback given to next

\* ---- values ----
Null == "null"
NoThrow == "nothrow"
TypeError == "TypeError"                 \* calling a null returnHandlerCallback
Errors == {"e1", "e2"}                   \* values a function may throw
Thrown == Errors \cup {TypeError}
ReturnHandlers == {"rh1", "rh2"}         \* functions the engine may deliver to the return handler
End == "end"                             \* the end callback of this call
ReqRef == "req"                          \* the request object the engine passed in
ResRef == "res"                          \* the response object the engine passed in
ResValues == {0, 1, 2}                   \* res.result; 0 is the value on entry

VARIABLES
    nextPromise,            \* "pending" | "resolved"                    (line 54)
    returnHandlerCallback,  \* Null or a function of ReturnHandlers      (line 58)
    nextWasCalled,          \* BOOLEAN                                   (line 59)
    pc,                     \* position of the adapter's async body
    outPromise,             \* promise returned by the output function
    calls,                  \* completion callbacks invoked by the adapter, in order
    hpc,                    \* position of the async middleware
    herr,                   \* the value the async middleware rejected with
    hawait,                 \* which asyncNext promise the async middleware awaits
    handlerCalls,           \* how many times asyncMiddleware was called
    handlerArgs,            \* the req and res the async middleware received
    asyncNextCalls,         \* how many times the async middleware called asyncNext
    nextCalls,              \* how many times next (the engine's) was called
    asyncNextPromise,       \* per call of asyncNext: "none" | "pending" | "resolved" | error
    held,                   \* calls of next whose callback the engine holds
    invoked,                \* per call of next: how often the engine invoked its callback
    res,                    \* res.result
    written,                \* the last value the middleware or a downstream stage wrote
    resSeen,                \* res.result at each invocation logged in calls
    rhAtSettle              \* returnHandlerCallback when the async middleware settled

vars == <<nextPromise, returnHandlerCallback, nextWasCalled, pc, outPromise, calls,
          hpc, herr, hawait, handlerCalls, handlerArgs, asyncNextCalls, nextCalls,
          asyncNextPromise,
          held, invoked, res, written, resSeen, rhAtSettle>>

adapterVars == <<pc, outPromise, calls, resSeen>>
frameVars == <<res, written>>
closureVars == <<nextPromise, returnHandlerCallback, nextWasCalled>>
handlerVars == <<hpc, herr, hawait, handlerCalls, handlerArgs, rhAtSettle>>
engineVars == <<asyncNextCalls, nextCalls, asyncNextPromise, held, invoked>>

NextIds == 1..MaxNextCalls

\* total number of times the engine has invoked a callback given to next
RECURSIVE SumInvoked(_)
SumInvoked(S) ==
    IF S = {} THEN 0
    ELSE LET i == CHOOSE x \in S : TRUE IN invoked[i] + SumInvoked(S \ {i})

EngineInvocations == SumInvoked(NextIds)

Init ==
    /\ nextPromise = "pending"
    /\ returnHandlerCallback = Null
    /\ nextWasCalled = FALSE
    /\ pc = "start"
    /\ outPromise = "pending"
    /\ calls = <<>>
    /\ hpc = "notStarted"
    /\ herr = Null
    /\ hawait = 0
    /\ handlerCalls = 0
    /\ handlerArgs = <<>>
    /\ asyncNextCalls = 0
    /\ nextCalls = 0
    /\ asyncNextPromise = [i \in NextIds |-> "none"]
    /\ held = {}
    /\ invoked = [i \in NextIds |-> 0]
    /\ res = 0
    /\ written = 0
    /\ resSeen = <<>>
    /\ rhAtSettle = Null

\* ---- the return handler passed to next (lines 68-72) ----
\* It stores what the engine delivers and resolves nextPromise.
StoredCallback(rh) == rh

ReturnHandler(rh) ==
    /\ returnHandlerCallback' = StoredCallback(rh)
    /\ nextPromise' = "resolved"

\* ---- the adapter's await sites ----
\* asyncNext without its await
AsyncNextNotAwaited(np) == TRUE

\* line 73: asyncNext resumes once nextPromise is resolved
AsyncNextReady(np) == np = "resolved"

\* the body without its await of nextPromise
NextPromiseNotAwaited(np) == TRUE

\* the body without its await of the middleware's promise
MiddlewareNotAwaited(h) == TRUE

\* line 77: the body resumes in the try block once the middleware's promise is resolved
MiddlewareResolved(h) == h = "resolved"

\* line 80: the body resumes once nextPromise is resolved
NextPromiseReady(np) == np = "resolved"

\* asyncNext without its call of next
NextNotCalled(n) == n

\* line 68: asyncNext calls next once
NextCallsAfter(n) == n + 1

\* ---- asyncNext (lines 62-74), called by the async middleware ----
\* The engine's next either keeps the return handler for later, invokes it
\* before it returns, or throws.
AsyncNext ==
    /\ hpc = "running"
    /\ asyncNextCalls < MaxNextCalls
    /\ asyncNextCalls' = asyncNextCalls + 1
    /\ nextWasCalled' = TRUE
    /\ nextCalls' = NextCallsAfter(nextCalls)
    /\ LET i == asyncNextCalls + 1 IN
         \/ /\ held' = held \cup {i}
            /\ asyncNextPromise' = [asyncNextPromise EXCEPT ![i] = "pending"]
            /\ UNCHANGED <<returnHandlerCallback, nextPromise, invoked>>
         \/ \E rh \in ReturnHandlers :
              /\ ReturnHandler(rh)
              /\ held' = held \cup {i}
              /\ invoked' = [invoked EXCEPT ![i] = 1]
              /\ asyncNextPromise' = [asyncNextPromise EXCEPT ![i] = "pending"]
         \/ \E e \in Errors :
              /\ asyncNextPromise' = [asyncNextPromise EXCEPT ![i] = e]
              /\ UNCHANGED <<returnHandlerCallback, nextPromise, invoked, held>>
    /\ UNCHANGED <<adapterVars, handlerVars, frameVars>>

\* line 73, the continuation of `await nextPromise` inside asyncNext
AsyncNextResume(i) ==
    /\ asyncNextPromise[i] = "pending"
    /\ AsyncNextReady(nextPromise)
    /\ asyncNextPromise' = [asyncNextPromise EXCEPT ![i] = "resolved"]
    /\ UNCHANGED <<adapterVars, closureVars, handlerVars, asyncNextCalls, nextCalls, held,
                   invoked, frameVars>>

\* ---- the engine invokes a return handler it holds (JsonRpcEngine._runReturnHandlers) ----
EngineRunsReturnHandler(i, rh) ==
    /\ i \in held
    /\ invoked[i] < MaxCbInvocations
    /\ ReturnHandler(rh)
    /\ invoked' = [invoked EXCEPT ![i] = @ + 1]
    /\ UNCHANGED <<adapterVars, nextWasCalled, handlerVars, asyncNextCalls, nextCalls,
                   asyncNextPromise, held, frameVars>>

\* ---- the consumer's async middleware (type at lines 11-18, called at line 77) ----
HandlerWrite(v) ==
    /\ hpc = "running"
    /\ written' = v
    /\ res' = IF handlerArgs[2] = ResRef THEN v ELSE res
    /\ UNCHANGED <<adapterVars, closureVars, handlerVars, engineVars>>

\* a stage after this one writes the response it was handed by next
DownstreamWrite(v) ==
    /\ held # {}
    /\ written' = v
    /\ res' = v
    /\ UNCHANGED <<adapterVars, closureVars, handlerVars, engineVars>>

HandlerAwait(i) ==
    /\ hpc = "running"
    /\ i <= asyncNextCalls
    /\ hpc' = "awaiting"
    /\ hawait' = i
    /\ UNCHANGED <<adapterVars, closureVars, herr, handlerCalls, handlerArgs, rhAtSettle,
                   engineVars, frameVars>>

HandlerResume ==
    /\ hpc = "awaiting"
    /\ asyncNextPromise[hawait] = "resolved"
    /\ hpc' = "running"
    /\ UNCHANGED <<adapterVars, closureVars, herr, hawait, handlerCalls, handlerArgs,
                   rhAtSettle, engineVars, frameVars>>

\* the awaited asyncNext promise rejected: the middleware catches the error ...
HandlerCatches ==
    /\ hpc = "awaiting"
    /\ asyncNextPromise[hawait] \in Errors
    /\ hpc' = "running"
    /\ UNCHANGED <<adapterVars, closureVars, herr, hawait, handlerCalls, handlerArgs,
                   rhAtSettle, engineVars, frameVars>>

\* ... or lets it propagate
HandlerPropagates ==
    /\ hpc = "awaiting"
    /\ asyncNextPromise[hawait] \in Errors
    /\ hpc' = "rejected"
    /\ herr' = asyncNextPromise[hawait]
    /\ rhAtSettle' = returnHandlerCallback
    /\ UNCHANGED <<adapterVars, closureVars, hawait, handlerCalls, handlerArgs,
                   engineVars, frameVars>>

HandlerReturn ==
    /\ hpc = "running"
    /\ hpc' = "resolved"
    /\ rhAtSettle' = returnHandlerCallback
    /\ UNCHANGED <<adapterVars, closureVars, herr, hawait, handlerCalls, handlerArgs,
                   engineVars, frameVars>>

HandlerThrow(e) ==
    /\ hpc = "running"
    /\ hpc' = "rejected"
    /\ herr' = e
    /\ rhAtSettle' = returnHandlerCallback
    /\ UNCHANGED <<adapterVars, closureVars, hawait, handlerCalls, handlerArgs,
                   engineVars, frameVars>>

\* ---- the adapter's body (lines 76-91) ----
Outcomes == {NoThrow} \cup Errors        \* what an invoked completion callback does

\* fn(arg): the call is logged with what the callee did; calling null throws
CallFn(log, fn, arg, t) ==
    IF fn = Null
    THEN [calls |-> log, threw |-> TypeError]
    ELSE [calls |-> Append(log, [fn |-> fn, arg |-> arg, threw |-> t]), threw |-> t]

\* the success path reporting an error
SuccessArgError == "e1"

\* lines 81 and 83: the argument of the completion on the success path
SuccessArg == Null

\* the branch at line 79 always taking the else, testing the captured callback,
\* or always taking the then
AlwaysEndPath(flag) == FALSE

UseCapturedCallback(flag) == returnHandlerCallback # Null

AlwaysWaitPath(flag) == TRUE

\* line 79: if (nextWasCalled)
UseReturnHandlerPath(flag) == flag

\* the branch at line 86 always taking the else, or testing nextWasCalled
CatchAlwaysEnd(rhc, flag) == FALSE

CatchUsesFlag(rhc, flag) == flag

\* line 86: if (returnHandlerCallback)
CatchUsesReturnHandler(rhc, flag) == rhc # Null

\* the catch block dropping the error
CatchArgDropped(error) == Null

\* lines 87 and 89: the argument of the completion in the catch block
CatchArg(error) == error

\* the body resetting the registration once it has used it
ClearedRegistration(rhc) == Null

\* lines 81 and 87: the body reads returnHandlerCallback and never assigns it
KeptRegistration(rhc) == rhc

\* a catch block that rethrows the error after reporting it
CatchRethrows(log, error, t) ==
    LET fn == IF CatchUsesReturnHandler(returnHandlerCallback, nextWasCalled)
              THEN returnHandlerCallback ELSE End
        r == CallFn(log, fn, CatchArg(error), t)
    IN [calls |-> r.calls, out |-> error]

\* lines 85-91; a throw inside the catch block rejects the returned promise
CatchBlock(log, error, t) ==
    LET fn == IF CatchUsesReturnHandler(returnHandlerCallback, nextWasCalled)
              THEN returnHandlerCallback ELSE End
        r == CallFn(log, fn, CatchArg(error), t)
    IN [calls |-> r.calls, out |-> IF r.threw = NoThrow THEN "resolved" ELSE r.threw]

\* end(null) followed by the completion of the catch block in every case
TryEndFinally(log, t1, t2) ==
    LET r == CallFn(log, End, SuccessArg, t1)
    IN CatchBlock(r.calls, IF r.threw = NoThrow THEN Null ELSE r.threw, t2)

\* line 83 inside the try: end(null); what it throws is caught at line 85
TryEnd(log, t1, t2) ==
    LET r == CallFn(log, End, SuccessArg, t1)
    IN IF r.threw = NoThrow THEN [calls |-> r.calls, out |-> "resolved"]
       ELSE CatchBlock(r.calls, r.threw, t2)

\* returnHandlerCallback(null) placed outside the try
ReturnHandlerUncaught(log, t1, t2) ==
    LET r == CallFn(log, returnHandlerCallback, SuccessArg, t1)
    IN [calls |-> r.calls, out |-> IF r.threw = NoThrow THEN "resolved" ELSE r.threw]

\* line 81 inside the try: returnHandlerCallback(null)
TryReturnHandler(log, t1, t2) ==
    LET r == CallFn(log, returnHandlerCallback, SuccessArg, t1)
    IN IF r.threw = NoThrow THEN [calls |-> r.calls, out |-> "resolved"]
       ELSE CatchBlock(r.calls, r.threw, t2)

\* the middleware handed a copy of the response
PassesCopy == <<ReqRef, "resCopy">>

\* line 77: the arguments asyncMiddleware is called with
HandlerArguments == <<ReqRef, ResRef>>

\* what the callees of the invocations added to log see in res.result
SeenBy(log) == resSeen \o [k \in 1..(Len(log) - Len(calls)) |-> res]

\* line 77: asyncMiddleware(req, res, asyncNext) is called
CallAsyncMiddleware ==
    /\ pc = "start"
    /\ pc' = "awaitHandler"
    /\ hpc' = "running"
    /\ handlerCalls' = handlerCalls + 1
    /\ handlerArgs' = HandlerArguments
    /\ UNCHANGED <<outPromise, calls, resSeen, closureVars, herr, hawait, rhAtSettle, engineVars, frameVars>>

\* lines 77-84: the awaited middleware promise resolved
AfterHandlerResolved(t1, t2) ==
    /\ pc = "awaitHandler"
    /\ MiddlewareResolved(hpc)
    /\ IF UseReturnHandlerPath(nextWasCalled)
       THEN /\ pc' = "awaitNext"
            /\ UNCHANGED <<outPromise, calls, resSeen>>
       ELSE LET r == TryEnd(calls, t1, t2) IN
            /\ pc' = "done"
            /\ calls' = r.calls
            /\ resSeen' = SeenBy(r.calls)
            /\ outPromise' = r.out
    /\ UNCHANGED <<closureVars, handlerVars, engineVars, frameVars>>

\* lines 77, 85-91: the awaited middleware promise rejected
AfterHandlerRejected(t) ==
    /\ pc = "awaitHandler"
    /\ hpc = "rejected"
    /\ LET r == CatchBlock(calls, herr, t) IN
         /\ pc' = "done"
         /\ calls' = r.calls
         /\ resSeen' = SeenBy(r.calls)
         /\ outPromise' = r.out
    /\ returnHandlerCallback' = KeptRegistration(returnHandlerCallback)
    /\ UNCHANGED <<nextPromise, nextWasCalled, handlerVars, engineVars, frameVars>>

\* lines 80-81: the continuation of `await nextPromise` in the body
AfterNextPromise(t1, t2) ==
    /\ pc = "awaitNext"
    /\ NextPromiseReady(nextPromise)
    /\ LET r == TryReturnHandler(calls, t1, t2) IN
         /\ pc' = "done"
         /\ calls' = r.calls
         /\ resSeen' = SeenBy(r.calls)
         /\ outPromise' = r.out
    /\ returnHandlerCallback' = KeptRegistration(returnHandlerCallback)
    /\ UNCHANGED <<nextPromise, nextWasCalled, handlerVars, engineVars, frameVars>>

Next ==
    \/ CallAsyncMiddleware
    \/ AsyncNext
    \/ \E i \in NextIds : AsyncNextResume(i)
    \/ \E i \in NextIds, rh \in ReturnHandlers : EngineRunsReturnHandler(i, rh)
    \/ \E v \in ResValues : HandlerWrite(v)
    \/ \E v \in ResValues : DownstreamWrite(v)
    \/ \E i \in NextIds : HandlerAwait(i)
    \/ HandlerResume
    \/ HandlerCatches
    \/ HandlerPropagates
    \/ HandlerReturn
    \/ \E e \in Errors : HandlerThrow(e)
    \/ \E t1, t2 \in Outcomes : AfterHandlerResolved(t1, t2)
    \/ \E t \in Outcomes : AfterHandlerRejected(t)
    \/ \E t1, t2 \in Outcomes : AfterNextPromise(t1, t2)

Spec == Init /\ [][Next]_vars

\* The event loop runs every continuation of the adapter's body that is ready:
\* the call at line 77 and the code after each await.  Nothing is assumed of
\* the middleware or of the engine.
FairSpec ==
    /\ Spec
    /\ WF_vars(CallAsyncMiddleware)
    /\ WF_vars(\E t1, t2 \in Outcomes : AfterHandlerResolved(t1, t2))
    /\ WF_vars(\E t \in Outcomes : AfterHandlerRejected(t))
    /\ WF_vars(\E t1, t2 \in Outcomes : AfterNextPromise(t1, t2))

\* ---- type invariant ----
TypeOK ==
    /\ nextPromise \in {"pending", "resolved"}
    /\ returnHandlerCallback \in {Null} \cup ReturnHandlers
    /\ nextWasCalled \in BOOLEAN
    /\ pc \in {"start", "awaitHandler", "awaitNext", "done"}
    /\ outPromise \in {"pending", "resolved"} \cup Thrown
    /\ hpc \in {"notStarted", "running", "awaiting", "resolved", "rejected"}
    /\ nextCalls \in 0..MaxNextCalls
    /\ asyncNextCalls \in 0..MaxNextCalls
    /\ res \in ResValues
    /\ written \in ResValues
    /\ Len(resSeen) = Len(calls)

\* ---- vocabulary of the properties ----
CallIdx == 1..Len(calls)
EndIdx == {k \in CallIdx : calls[k].fn = End}
RhIdx == {k \in CallIdx : calls[k].fn \in ReturnHandlers}
Terminated == pc = "done"
HandlerSettled == hpc \in {"resolved", "rejected"}
ContinuationAtMostOnce == asyncNextCalls <= 1
EachCallbackExactlyOnce == \A i \in 1..nextCalls : i \in held /\ invoked[i] = 1
EachCallbackAtMostOnce == \A i \in NextIds : invoked[i] <= 1

\* C1: in a terminated call whose handler settled, called its continuation at
\* most once and whose return handler the engine invoked exactly once, the
\* adapter made exactly one completion invocation in total (end plus the
\* captured return-handler callback).
C1_ExactlyOneCompletion ==
    (Terminated /\ HandlerSettled /\ ContinuationAtMostOnce /\ EachCallbackExactlyOnce)
        => Len(calls) = 1

\* C2 as stated: in every terminated call end was invoked exactly when the
\* handler never called its continuation, and a registered callback exactly
\* when it did, whether the handler returned or threw.
C2_PathMatchesFlag ==
    Terminated => /\ (EndIdx # {}) <=> ~nextWasCalled
                  /\ (RhIdx # {}) <=> nextWasCalled

\* C2 amended: the path matches the flag when the handler returned; when the
\* handler threw, a registered callback was invoked only if the continuation
\* had been called, and end was invoked whenever it had not been called.
C2_PathMatchesFlagOnReturn ==
    Terminated =>
        /\ hpc = "resolved" => /\ (EndIdx # {}) <=> ~nextWasCalled
                               /\ (RhIdx # {}) <=> nextWasCalled
        /\ hpc = "rejected" => /\ (RhIdx # {}) => nextWasCalled
                               /\ ~nextWasCalled => (EndIdx # {} /\ RhIdx = {})
                               /\ (EndIdx # {}) <=> (RhIdx = {})

\* the handler threw after calling its continuation and end was used
C2_Witness ==
    /\ Terminated
    /\ hpc = "rejected"
    /\ nextWasCalled
    /\ EndIdx # {}
    /\ RhIdx = {}

\* C3: when the handler called its continuation and then returned, the first
\* completion the adapter invoked is a function the engine delivered, invoked
\* with null, and no registered callback is ever invoked before the engine has
\* invoked a return handler; end is not the path.
C3_ContinueThenResolve ==
    /\ RhIdx # {} => (EngineInvocations >= 1 /\ nextPromise = "resolved")
    /\ (Terminated /\ hpc = "resolved" /\ nextWasCalled) =>
           /\ Len(calls) >= 1
           /\ calls[1].fn \in ReturnHandlers
           /\ calls[1].arg = Null
           /\ EndIdx = {}

\* the engine kept the return handler and invoked it only after the handler had
\* returned: the adapter waited for it and then called what it delivered
C3_Witness ==
    /\ Terminated
    /\ hpc = "resolved"
    /\ nextWasCalled
    /\ rhAtSettle = Null
    /\ Len(calls) = 1
    /\ calls[1].fn \in ReturnHandlers
    /\ calls[1].arg = Null

\* C4: a handler that called its continuation and returned without ever
\* awaiting the promise: nothing is invoked while nextPromise is pending; at
\* termination exactly one invocation has the argument null, it is the first
\* one, its callee is a function the engine delivered, it is the only
\* invocation when it returns normally, and end is never invoked.
NullIdx == {k \in CallIdx : calls[k].arg = Null}

C5_ErrorAfterCapture ==
    (Terminated /\ hpc = "rejected" /\ rhAtSettle # Null) =>
        /\ Len(calls) = 1
        /\ calls[1].fn \in ReturnHandlers
        /\ calls[1].arg = herr
        /\ (ContinuationAtMostOnce /\ EachCallbackAtMostOnce) => calls[1].fn = rhAtSettle

C5_Witness ==
    /\ Terminated
    /\ hpc = "rejected"
    /\ rhAtSettle = "rh2"
    /\ herr = "e2"
    /\ calls = <<[fn |-> "rh2", arg |-> "e2", threw |-> NoThrow]>>

\* C6 as stated: when the handler threw e, the one completion is a registered
\* callback with e if and only if the registration was captured at the moment
\* of the throw, and end(e) otherwise.
C6_RoutingAtThrow ==
    (Terminated /\ hpc = "rejected") =>
        /\ Len(calls) = 1
        /\ calls[1].arg = herr
        /\ (calls[1].fn \in ReturnHandlers) <=> (rhAtSettle # Null)
        /\ (calls[1].fn = End) <=> (rhAtSettle = Null)

\* C6 amended: the step that runs the catch block after the handler threw e
\* makes one invocation with e, of the registration captured when that step
\* runs if there is one, and of end otherwise.
C6_RoutingAtCatch ==
    [][(pc = "awaitHandler" /\ hpc = "rejected" /\ pc' = "done") =>
          /\ Len(calls') = Len(calls) + 1
          /\ calls'[Len(calls')].arg = herr
          /\ calls'[Len(calls')].fn =
                 IF returnHandlerCallback # Null THEN returnHandlerCallback ELSE End]_vars

\* the registration arrived between the throw and the catch block
C6_Witness ==
    /\ Terminated
    /\ hpc = "rejected"
    /\ nextWasCalled
    /\ rhAtSettle = Null
    /\ Len(calls) = 1
    /\ calls[1].fn \in ReturnHandlers
    /\ calls[1].arg = herr

\* C7: the handler threw e without having called its continuation: the one
\* completion is end(e), next was never called and no registered callback was
\* invoked.
C7_ErrorBeforeContinuation ==
    (Terminated /\ hpc = "rejected" /\ ~nextWasCalled) =>
        /\ Len(calls) = 1
        /\ calls[1].fn = End
        /\ calls[1].arg = herr
        /\ nextCalls = 0
        /\ EngineInvocations = 0
        /\ RhIdx = {}

C7_Witness ==
    /\ Terminated
    /\ hpc = "rejected"
    /\ ~nextWasCalled
    /\ herr = "e1"
    /\ calls = <<[fn |-> End, arg |-> "e1", threw |-> NoThrow]>>

EndNeverThrew == \A k \in EndIdx : calls[k].threw = NoThrow

C9_AtMostOnceEnd ==
    EndNeverThrew => Cardinality(EndIdx) <= 1

\* end was invoked, and did not throw, for a handler that had continued
C9_Witness ==
    /\ Terminated
    /\ nextWasCalled
    /\ EndNeverThrew
    /\ Cardinality(EndIdx) = 1

\* C10: a promise returned by asyncNext is resolved only when nextPromise is
\* resolved, the engine has invoked a return handler and the registration is
\* set (the handler leaves its await normally only on a resolved promise).
C10_ResumeAfterReturnHandler ==
    \A i \in NextIds :
        asyncNextPromise[i] = "resolved" =>
            /\ nextPromise = "resolved"
            /\ returnHandlerCallback # Null
            /\ EngineInvocations >= 1

\* the handler awaited asyncNext and got control back
C10_Witness ==
    /\ hpc = "running"
    /\ hawait = 1
    /\ asyncNextPromise[1] = "resolved"
    /\ returnHandlerCallback # Null

CompletionEnabled ==
    /\ HandlerSettled
    /\ (hpc = "resolved" /\ nextWasCalled) => nextPromise = "resolved"

C12_EventualCompletion ==
    CompletionEnabled ~> (Terminated /\ calls # <<>>)

\* a call that had to wait for the engine and terminated
C12_Witness ==
    /\ Terminated
    /\ hpc = "resolved"
    /\ nextWasCalled
    /\ hawait = 1
    /\ asyncNextPromise[1] = "resolved"
    /\ calls # <<>>

\* C13: while the handler has not settled the adapter has invoked nothing and
\* its promise is pending, whether or not the registration is captured.
C13_NoCompletionBeforeSettle ==
    ~HandlerSettled =>
        /\ calls = <<>>
        /\ outPromise = "pending"
        /\ ~Terminated

\* the registration is captured, the handler is still running, nothing invoked
C13_Witness ==
    /\ hpc \in {"running", "awaiting"}
    /\ returnHandlerCallback # Null
    /\ nextPromise = "resolved"
    /\ invoked[1] = MaxCbInvocations
    /\ calls = <<>>

\* C14: the middleware is called with the request and the response the engine
\* passed in; res.result always holds the last write of the middleware or of a
\* downstream stage; a step of the adapter that invokes a completion leaves
\* res.result unchanged and the callee sees that last write.
C14_PassThrough ==
    /\ [](/\ hpc # "notStarted" => handlerArgs = <<ReqRef, ResRef>>
          /\ res = written)
    /\ [][calls' # calls =>
            /\ res' = res
            /\ written' = written
            /\ \A k \in (Len(calls) + 1)..Len(calls') : resSeen'[k] = written]_vars

\* the middleware set res.result = 1 and returned: end(null) sees 1
C14_Witness ==
    /\ ~nextWasCalled
    /\ calls = <<[fn |-> End, arg |-> Null, threw |-> NoThrow]>>
    /\ resSeen = <<1>>
    /\ res = 1
    /\ written = 1

\* C15: while the handler has called its continuation at most once and the
\* engine has invoked no return handler twice: nextPromise is resolved by at
\* most one invocation and stays resolved, the registration once set is never
\* changed or cleared, it is set exactly when nextPromise is resolved, and
\* both awaits of nextPromise are passed only when it is resolved.
OneShotInputs == ContinuationAtMostOnce /\ EachCallbackAtMostOnce

C15_OneShot ==
    /\ [](OneShotInputs =>
            /\ EngineInvocations <= 1
            /\ (nextPromise = "resolved") <=> (returnHandlerCallback # Null)
            /\ (nextPromise = "resolved") <=> (EngineInvocations = 1)
            /\ asyncNextPromise[1] = "resolved" => nextPromise = "resolved"
            /\ (Terminated /\ hpc = "resolved" /\ nextWasCalled) => nextPromise = "resolved")
    /\ [][OneShotInputs' =>
            /\ nextPromise = "resolved" =>
                  (nextPromise' = "resolved" /\ EngineInvocations' = EngineInvocations)
            /\ returnHandlerCallback # Null =>
                  returnHandlerCallback' = returnHandlerCallback]_vars

\* one continuation, one invocation; both awaits were passed and the
\* registration used is the one still stored
C15_Witness ==
    /\ Terminated
    /\ hpc = "resolved"
    /\ asyncNextCalls = 1
    /\ hawait = 1
    /\ asyncNextPromise[1] = "resolved"
    /\ invoked[1] = 1
    /\ Len(calls) = 1
    /\ calls[1].fn = returnHandlerCallback

\* C17: the middleware is called exactly once per call, also after it threw;
\* next has been called exactly as often as asyncNext; every call of next
\* happens inside a call of asyncNext, with the middleware running before and
\* after it.
C17_CallCounts ==
    /\ [](/\ handlerCalls = IF pc = "start" THEN 0 ELSE 1
          /\ nextCalls = asyncNextCalls)
    /\ [][nextCalls' # nextCalls =>
            /\ nextCalls' = nextCalls + 1
            /\ asyncNextCalls' = asyncNextCalls + 1
            /\ hpc = "running"
            /\ hpc' = "running"]_vars

\* the middleware continued twice and threw; it was not called again
C17_Witness ==
    /\ Terminated
    /\ hpc = "rejected"
    /\ handlerCalls = 1
    /\ asyncNextCalls = 2
    /\ nextCalls = 2

\* C16: the returned promise is pending until the call terminates; it is
\* rejected only with what the last completion invocation threw; when no
\* completion invocation threw it is resolved; what the handler threw is the
\* argument of the first completion invocation.
AllReturned == \A k \in CallIdx : calls[k].threw = NoThrow

C16_NeverRejectsForHandler ==
    /\ ~Terminated => outPromise = "pending"
    /\ Terminated => outPromise # "pending"
    /\ outPromise \in Thrown =>
          /\ calls # <<>>
          /\ calls[Len(calls)].threw = outPromise
    /\ (Terminated /\ AllReturned) => outPromise = "resolved"
    /\ (Terminated /\ hpc = "rejected") =>
          /\ calls # <<>>
          /\ calls[1].arg = herr

\* next threw, the awaiting handler let the error propagate, the adapter
\* reported it and its promise resolved
C16_Witness ==
    /\ Terminated
    /\ hpc = "rejected"
    /\ hawait = 1
    /\ asyncNextPromise[1] = herr
    /\ calls = <<[fn |-> End, arg |-> herr, threw |-> NoThrow]>>
    /\ outPromise = "resolved"

\* C18: when the handler returned and the first completion invocation (with
\* null) threw v, the adapter made a second invocation, of the same callee,
\* with v.
C18_ThrowingCompletionReinvoked ==
    (hpc = "resolved" /\ calls # <<>> /\ calls[1].threw # NoThrow) =>
        /\ calls[1].arg = Null
        /\ Len(calls) = 2
        /\ calls[2].fn = calls[1].fn
        /\ calls[2].arg = calls[1].threw

\* the registered callback threw e1 on null and was invoked again with e1
C18_Witness ==
    /\ Terminated
    /\ nextWasCalled
    /\ calls = <<[fn |-> "rh1", arg |-> Null, threw |-> "e1"],
                 [fn |-> "rh1", arg |-> "e1", threw |-> NoThrow]>>
====
